---------------------------- MODULE Spec2Model ----------------------------
(***************************************************************************)
(* HypiLite (src/src/app.py): the request handlers bedwars_stats and       *)
(* get_guild as a state machine.  One request is in flight at a time; a    *)
(* handler's position is pc, its Python locals are the other variables.    *)
(*                                                                         *)
(* Python values:                                                          *)
(*   dict            a function whose domain is a set of strings           *)
(*   d.get(k, v)     Get(d, k, v)                                          *)
(*   f"{a}{b}"       a \o b on strings                                     *)
(*   None (prefix)   <<>>, a string prefix p is <<p>>                      *)
(*   int counters    naturals                                              *)
(*   round(x, 2)     an integer number of hundredths                       *)
(***************************************************************************)
EXTENDS Integers, Sequences, FiniteSets, TLC

VARIABLES
    pc,            \* position of the request in flight
    handler,       \* the handler the request was routed to
    uuid,          \* the path parameter, after .replace("-", "")
    resp_status,   \* upstream HTTP status (resp.status)
    data,          \* upstream JSON body (data / guild_data)
    player_data,   \* bedwars_stats: data.get("player", {})
    level_info,    \* bedwars_stats: the tuple get_level_info(xp) returned
    bedwars_data,  \* bedwars_stats: the raw counter map
    stats,         \* bedwars_stats: mode key -> mode_stats, in construction
    branch,        \* bedwars_stats: mode key -> branch of the loop body taken
    todo,          \* bedwars_stats: the items of gamemodes.items() not yet visited
    guild_members, \* get_guild: members not yet visited by the for loop
    formatted_members,    \* get_guild: formatted_members
    current_member_data,  \* get_guild: current_member_data
    username_or_uuid,     \* get_player_uuid: the path parameter
    lookup,        \* get_profile, get_player_uuid: what the lookups awaited so far answered
    response       \* what the handler returned or raised

vars == <<pc, handler, uuid, resp_status, data, player_data, level_info, bedwars_data,
          stats, branch, todo, guild_members, formatted_members,
          current_member_data, username_or_uuid, lookup, response>>

-----------------------------------------------------------------------------
(* Bounds of the model. *)

\* Largest value of one raw counter in the enumerated raw maps.
MaxVal == 2

\* Largest integer part of a level the leveling calculator returns.
MaxLevel == 11

\* Largest Experience value in the enumerated raw maps.
MaxXp == 1

\* Longest member list of a guild.
MaxMembers == 2

\* Longest path parameter given to get_player_uuid.
MaxArgLen == 17

-----------------------------------------------------------------------------
(* Python helpers. *)

EmptyDict == [k \in {} |-> 0]

\* JSON null / Python None as a value of a dict entry.
PyNone == [py_none |-> TRUE]

\* d.get(k, default)
Get(d, k, default) == IF k \in DOMAIN d THEN d[k] ELSE default

\* `not v` for a value that is None, a dict, a list or a string.
Falsy(v) == v = PyNone \/ v = EmptyDict

\* d[k] = v
DictSet(d, k, v) == [x \in DOMAIN d \cup {k} |-> IF x = k THEN v ELSE d[x]]

RECURSIVE SumSeq(_)
\* sum(...) over a generator, here the sequence of its values
SumSeq(s) == IF s = <<>> THEN 0 ELSE Head(s) + SumSeq(Tail(s))

RECURSIVE StripHyphens(_)
\* str(uuid).replace("-", "") on a string held as a sequence of characters
StripHyphens(s) ==
    IF s = <<>> THEN <<>>
    ELSE IF Head(s) = "-" THEN StripHyphens(Tail(s))
    ELSE <<Head(s)>> \o StripHyphens(Tail(s))

-----------------------------------------------------------------------------
(* The gamemode schema of bedwars_stats. *)

None == <<>>
Some(p) == <<p>>

\* A dict literal / dict.update(): later pairs replace the value of a key
\* already present (keeping its position), new keys are appended.
RECURSIVE DictUpdate(_, _)
DictUpdate(items, upd) ==
    IF upd = <<>> THEN items
    ELSE LET kv == Head(upd)
             hit == {n \in 1..Len(items) : items[n][1] = kv[1]}
         IN  DictUpdate(IF hit = {}
                        THEN Append(items, kv)
                        ELSE [n \in 1..Len(items) |->
                                 IF n \in hit THEN kv ELSE items[n]],
                        Tail(upd))

\* combined_modes: category -> its two prefixes
combined_modes ==
    [ultimate |-> <<"eight_two_ultimate_", "four_four_ultimate_">>,
     lucky    |-> <<"eight_two_lucky_", "four_four_lucky_">>,
     rush     |-> <<"eight_two_rush_", "four_four_rush_">>,
     swap     |-> <<"eight_two_swap_", "four_four_swap_">>]

\* The dict literal bound to gamemodes, as its (key, prefix) pairs in order.
gamemodes_literal ==
    << <<"overall", Some("")>>,
       <<"core", None>>,
       <<"eight_one", Some("eight_one_")>>,
       <<"eight_two", Some("eight_two_")>>,
       <<"four_three", Some("four_three_")>>,
       <<"four_four", Some("four_four_")>>,
       <<"two_four", Some("two_four_")>>,
       <<"four_four_armed", Some("four_four_armed_")>>,
       <<"castle", Some("castle_")>>,
       <<"four_four_lucky", Some("four_four_lucky_")>>,
       <<"eight_two_lucky", Some("eight_two_lucky_")>>,
       <<"eight_two_rush", Some("eight_two_rush_")>>,
       <<"four_four_rush", Some("four_four_rush_")>>,
       <<"eight_two_swap", Some("eight_two_swap_")>>,
       <<"four_four_swap", Some("four_four_swap_")>>,
       <<"eight_two_ultimate", Some("eight_two_ultimate_")>>,
       <<"four_four_ultimate", Some("four_four_ultimate_")>>,
       <<"four_four_underworld", Some("four_four_underworld_")>>,
       <<"four_four_voidless", Some("four_four_voidless_")>> >>

\* The pairs gamemodes.update({...}) adds.
gamemodes_update ==
    << <<"ultimate", None>>, <<"lucky", None>>,
       <<"rush", None>>, <<"swap", None>> >>

\* gamemodes after the update: what gamemodes.items() iterates over.
gamemodes == DictUpdate(DictUpdate(<<>>, gamemodes_literal), gamemodes_update)

core_modes == <<"eight_one_", "eight_two_", "four_three_", "four_four_">>

\* The eight counters: output metric and raw suffix.
Counters == {"wins", "losses", "final_kills", "final_deaths",
             "kills", "deaths", "beds_broken", "beds_lost"}

\* The four resource totals: output metric -> raw suffix.
ResourceSuffix ==
    [emeralds |-> "emerald_resources_collected_bedwars",
     diamonds |-> "diamond_resources_collected_bedwars",
     gold     |-> "gold_resources_collected_bedwars",
     iron     |-> "iron_resources_collected_bedwars"]

Resources == DOMAIN ResourceSuffix

\* The raw suffix a metric is read from.
RawSuffix(metric) ==
    IF metric \in Resources THEN ResourceSuffix[metric]
    ELSE metric \o "_bedwars"

\* The four ratios: output metric -> <<numerator, denominator>> counters.
RatioOf ==
    [wlr  |-> <<"wins", "losses">>,
     kdr  |-> <<"kills", "deaths">>,
     fkdr |-> <<"final_kills", "final_deaths">>,
     bblr |-> <<"beds_broken", "beds_lost">>]

Ratios == DOMAIN RatioOf

Metrics == Counters \cup Resources \cup Ratios

\* round(a / d, 2) for integers a >= 0, d > 0, as a number of hundredths.
\* Python rounds the binary quotient to the nearest hundredth; a quotient
\* exactly half way (only multiples of 1/8 are, for d < 40) goes to the even
\* hundredth.
RoundDiv(a, d) ==
    LET q == (100 * a) \div d
        r == (100 * a) % d
    IN  IF 2 * r < d THEN q
        ELSE IF 2 * r > d THEN q + 1
        ELSE IF q % 2 = 0 THEN q ELSE q + 1

\* A mutant: the zero denominator gives 0.
Ratio_zero(n, d) == IF d > 0 THEN RoundDiv(n, d) ELSE 0

\* round(n / d if d > 0 else n, 2), in hundredths.
Ratio(n, d) == IF d > 0 THEN RoundDiv(n, d) ELSE 100 * n

\* sum(bedwars_data.get(f"{prefix}<suffix>", 0) for prefix in prefixes)
SumOver(raw, prefixes, suffix) ==
    SumSeq([n \in 1..Len(prefixes) |-> Get(raw, prefixes[n] \o suffix, 0)])

\* f"{mode_prefix}" : None formats as "None".
Fmt(mode_prefix) == IF mode_prefix = None THEN "None" ELSE mode_prefix[1]

\* The dict literal mode_stats, given the twelve values read for the mode:
\* twelve pass-through fields and the four ratios of the counters.
ModeStatsDict(mode_key, val) ==
    LET fields == [m \in Metrics |->
                     IF m \in Ratios
                     THEN Ratio(val[RatioOf[m][1]], val[RatioOf[m][2]])
                     ELSE val[m]]
        names  == {mode_key \o "_" \o m : m \in Metrics}
    IN  [f \in names |->
            LET m == CHOOSE x \in Metrics : mode_key \o "_" \o x = f
            IN  fields[m]]

\* A mutant: the combined branch reads only the first prefix of the pair.
CombinedStats_first(raw, mode_key) ==
    ModeStatsDict(mode_key,
        [m \in Counters \cup Resources |->
            SumOver(raw, <<combined_modes[mode_key][1]>>, RawSuffix(m))])

\* The branch `if mode_key in combined_modes`.
CombinedStats(raw, mode_key) ==
    ModeStatsDict(mode_key,
        [m \in Counters \cup Resources |->
            SumOver(raw, combined_modes[mode_key], RawSuffix(m))])

\* A mutant: core also sums the 4v4 mode.
CoreStats_five(raw, mode_key) ==
    ModeStatsDict(mode_key,
        [m \in Counters \cup Resources |->
            SumOver(raw, Append(core_modes, "two_four_"), RawSuffix(m))])

\* The branch `elif mode_key == "core"`.
CoreStats(raw, mode_key) ==
    ModeStatsDict(mode_key,
        [m \in Counters \cup Resources |->
            SumOver(raw, core_modes, RawSuffix(m))])

\* A mutant: the overall mode sums the four core prefixes instead of reading
\* the unprefixed keys.
SingleStats_sum(raw, mode_key, mode_prefix) ==
    ModeStatsDict(mode_key,
        [m \in Counters \cup Resources |->
            IF Fmt(mode_prefix) = ""
            THEN SumOver(raw, core_modes, RawSuffix(m))
            ELSE Get(raw, Fmt(mode_prefix) \o RawSuffix(m), 0)])

\* The branch `else`: one prefix.
SingleStats(raw, mode_key, mode_prefix) ==
    ModeStatsDict(mode_key,
        [m \in Counters \cup Resources |->
            Get(raw, Fmt(mode_prefix) \o RawSuffix(m), 0)])

-----------------------------------------------------------------------------
(* Levels.  A level is [isint, h]: h hundredths of a level, held by Python  *)
(* as an int (isint) or as a float.                                        *)

DigitChars == <<"0", "1", "2", "3", "4", "5", "6", "7", "8", "9">>

RECURSIVE Digits(_)
\* str(n) of an int n >= 0, as a sequence of characters
Digits(n) ==
    IF n < 10 THEN <<DigitChars[n + 1]>>
    ELSE Digits(n \div 10) \o <<DigitChars[(n % 10) + 1]>>

\* str(level): "12" for an int, "12.0", "12.5", "12.05", "12.25" for a float
PyStr(level) ==
    LET w == level.h \div 100
        f == level.h % 100
    IN  IF level.isint THEN Digits(w)
        ELSE Digits(w) \o <<".">> \o
             (IF f % 10 = 0 THEN Digits(f \div 10)
              ELSE <<DigitChars[(f \div 10) + 1], DigitChars[(f % 10) + 1]>>)

RECURSIVE SplitFirst(_, _)
\* s.split(sep)[0]: the characters before the first sep
SplitFirst(s, sep) ==
    IF s = <<>> \/ Head(s) = sep THEN <<>>
    ELSE <<Head(s)>> \o SplitFirst(Tail(s), sep)

RECURSIVE ParseInt(_)
\* int(s) of a sequence of decimal digits
ParseInt(s) ==
    IF s = <<>> THEN 0
    ELSE LET last == s[Len(s)]
             d    == CHOOSE n \in 0..9 : DigitChars[n + 1] = last
         IN  10 * ParseInt(SubSeq(s, 1, Len(s) - 1)) + d

\* A mutant: the +1 is applied to the split of the whole text, so the digits
\* after the point are read too.
NextLevel_nosplit(level) ==
    ParseInt(SelectSeq(PyStr(level), LAMBDA c : c # ".")) + 1

\* next_level = int(str(level).split(".")[0]) + 1
NextLevel(level) == ParseInt(SplitFirst(PyStr(level), ".")) + 1

\* The lowest level of the curve (spec: compute_level(0) is "at its minimum
\* defined value (e.g. 1.0)").
MinLevel == 1

\* Hundredths a float level may carry after the point.
FracSamples == {0, 1, 10, 25, 50, 99}

\* The levels get_level_info may return for some xp > 0, within MaxLevel.
Levels ==
    {[isint |-> TRUE, h |-> 100 * w] : w \in MinLevel..MaxLevel} \cup
    {[isint |-> FALSE, h |-> 100 * w + f] :
        w \in MinLevel..MaxLevel, f \in FracSamples}

\* get_level_info(xp), which is not part of app.py: the set of tuples it may
\* return.  xp = 0 gives the minimum level; the level of another xp is any
\* level of the curve.  prestige, xp_to_next_level and progress_percentage
\* are passed through by the handler and stay symbolic.
get_level_info(xp) ==
    {[level |-> lv,
      prestige |-> <<"prestige", xp>>,
      xp_to_next_level |-> <<"xp_to_next_level", xp>>,
      progress_percentage |-> <<"progress_percentage", xp>>] :
        lv \in IF xp = 0 THEN {[isint |-> FALSE, h |-> 100 * MinLevel]}
               ELSE Levels}

-----------------------------------------------------------------------------
(* What the upstream API may answer to bedwars_stats. *)

\* The prefixes of the raw keys enumerated: every prefix of the schema and
\* one the schema does not know.
InputPrefixes ==
    {Fmt(gamemodes[n][2]) : n \in {i \in 1..Len(gamemodes) : gamemodes[i][2] # None}}
    \cup {"eight_two_voidless_"}

\* Pairs of raw suffixes set together: numerator and denominator of each
\* ratio, and the resources two by two.
SuffixPairs ==
    {<<RawSuffix(RatioOf[r][1]), RawSuffix(RatioOf[r][2])>> : r \in Ratios}
    \cup {<<RawSuffix("emeralds"), RawSuffix("diamonds")>>,
          <<RawSuffix("gold"), RawSuffix("iron")>>}

\* The dict holding the given <<key, value>> entries.
DictOf(entries) ==
    [k \in {e[1] : e \in entries} |-> (CHOOSE e \in entries : e[1] = k)[2]]

WithXp(raw, xp) == DictSet(raw, "Experience", xp)

\* One prefix, one suffix pair, not both absent.
SingleMaps ==
    {WithXp(DictOf({e \in {<<p \o sp[1], a>>, <<p \o sp[2], b>>} : e[2] > 0}), 0) :
        p \in InputPrefixes, sp \in SuffixPairs,
        a \in 0..MaxVal, b \in 0..MaxVal} \ {WithXp(EmptyDict, 0)}

\* Both prefixes of a combined category, one suffix pair.
CombinedMaps ==
    {WithXp(DictOf({<<combined_modes[c][1] \o sp[1], a>>,
                    <<combined_modes[c][1] \o sp[2], b>>,
                    <<combined_modes[c][2] \o sp[1], cc>>,
                    <<combined_modes[c][2] \o sp[2], d>>}), 0) :
        c \in DOMAIN combined_modes, sp \in SuffixPairs,
        a \in 1..MaxVal, cc \in 1..MaxVal, b \in 0..MaxVal, d \in 0..MaxVal}

\* The four core prefixes and the 4v4 prefix, one suffix pair.
CoreMaps ==
    {WithXp(DictOf({<<"eight_one_" \o sp[1], a>>, <<"eight_two_" \o sp[1], b>>,
                    <<"four_three_" \o sp[1], c>>, <<"four_four_" \o sp[1], c>>,
                    <<"eight_one_" \o sp[2], d1>>, <<"eight_two_" \o sp[2], d2>>,
                    <<"four_three_" \o sp[2], d2>>, <<"four_four_" \o sp[2], d2>>,
                    <<"two_four_" \o sp[1], 1>>, <<"two_four_" \o sp[2], 1>>}), 0) :
        sp \in SuffixPairs, a \in 1..MaxVal, b \in 1..MaxVal, c \in 1..MaxVal,
        d1 \in 0..MaxVal, d2 \in 0..MaxVal}

\* The scenarios the specification spells out.
ScenarioMaps ==
    {WithXp(EmptyDict, 0),
     WithXp(DictOf({<<"eight_one_wins_bedwars", 7>>}), 0),
     WithXp(DictOf({<<"eight_one_wins_bedwars", 10>>,
                    <<"eight_one_losses_bedwars", 5>>,
                    <<"eight_one_final_kills_bedwars", 20>>,
                    <<"eight_one_final_deaths_bedwars", 4>>}), 0)}

\* Raw maps with some experience and no counters.
XpMaps == {WithXp(EmptyDict, x) : x \in 1..MaxXp}

\* Raw maps without the Experience entry.
NoXpMaps == {EmptyDict, DictOf({<<"wins_bedwars", 1>>}),
             DictOf({<<"eight_one_wins_bedwars", 1>>, <<"eight_one_losses_bedwars", 2>>})}

RawMaps == SingleMaps \cup CombinedMaps \cup CoreMaps \cup ScenarioMaps
           \cup XpMaps \cup NoXpMaps

\* The "player" objects.
Players ==
    {PyNone, EmptyDict,
     [displayname |-> "Steve"],
     [displayname |-> "Steve", stats |-> [SkyWars |-> EmptyDict]],
     [stats |-> [Bedwars |-> WithXp(EmptyDict, 0)]]}
    \cup {[displayname |-> "Steve", stats |-> [Bedwars |-> raw]] : raw \in RawMaps}

InvalidKeyBody == [success |-> FALSE, cause |-> "Invalid API key"]
MalformedBody  == [success |-> FALSE, cause |-> "Malformed UUID"]

\* Bodies that carry no player worth aggregating.
PlainBodies ==
    {InvalidKeyBody, MalformedBody,
     [success |-> FALSE, cause |-> "Key throttle"],
     [cause |-> "no success field"],
     [success |-> TRUE],
     [success |-> TRUE, player |-> [displayname |-> "Steve",
                                    stats |-> [Bedwars |-> WithXp(EmptyDict, 0)]]]}

Statuses == {200, 401, 403, 422, 429, 500}

\* <<resp.status, await resp.json()>>
PlayerResponses ==
    (Statuses \X PlainBodies)
    \cup {<<200, [success |-> TRUE, player |-> p]>> : p \in Players}

\* The uuid path parameters, as sequences of characters.
UuidParams == {<<"a", "a">>, <<"a", "-", "a">>, <<"b", "b">>, <<"-", "c", "c", "-">>}

-----------------------------------------------------------------------------
(* Responses. *)

NoResponse == [kind |-> "none"]

\* raise HTTPException(status_code=..., detail=...)
HTTPException(status_code, detail) ==
    [kind |-> "error", status_code |-> status_code, detail |-> detail]

\* An exception no handler catches (the framework answers 500).
Uncaught(exc) == [kind |-> "exception", exc |-> exc]

\* return {...}
Return(body) == [kind |-> "ok", body |-> body]

\* A mutant: the 422 test is made before the 401 test.
UpstreamError_swapped(status, body) ==
    IF status = 422 \/ body = [success |-> FALSE, cause |-> "Malformed UUID"]
    THEN [kind |-> "error", status_code |-> 422, detail |-> "Invalid UUID"]
    ELSE IF status = 401 \/ body = [success |-> FALSE, cause |-> "Invalid API key"]
    THEN [kind |-> "error", status_code |-> 401, detail |-> "Invalid API key"]
    ELSE IF status # 200
    THEN [kind |-> "error", status_code |-> 500, detail |-> "Hypixel API error"]
    ELSE [kind |-> "none"]

\* The status checks made while the upstream response is open; "pass" when
\* none raises.
UpstreamError(status, body) ==
    IF status = 401 \/ body = InvalidKeyBody
    THEN HTTPException(401, "Invalid API key")
    ELSE IF status = 422 \/ body = MalformedBody
    THEN HTTPException(422, "Invalid UUID")
    ELSE IF status # 200
    THEN HTTPException(500, "Hypixel API error")
    ELSE NoResponse

-----------------------------------------------------------------------------
(* bedwars_stats *)

\* slumber_tickets_max, by the wallet the player owns
SlumberTicketsMax(raw) ==
    LET bag == Get(Get(raw, "slumber", EmptyDict), "bag_type", "")
    IN  CASE bag = "MINI_WALLET" -> 25
          [] bag = "LIGHT_SLUMBERS_WALLET" -> 99
          [] bag = "LIGHT_IMPERIAL_WALLET" -> 500
          [] bag = "EXPLORERS_WALLET" -> 5000
          [] bag = "HOTEL_STAFF_WALLET" -> 10000
          [] bag = "PLATINUM_MEMBERSHIP_WALLET" -> 100000
          [] OTHER -> 0

\* resources = {...}
ResourcesOf(raw) ==
    [tokens |-> Get(raw, "coins", 0),
     slumber_tickets |-> Get(Get(raw, "slumber", EmptyDict), "tickets", 0),
     slumber_tickets_max |-> SlumberTicketsMax(raw),
     slumber_tickets_total |->
         Get(Get(raw, "slumber", EmptyDict), "total_tickets_earned", 0)]

\* A mutant: the test `mode_key in combined_modes` is lost, so a combined
\* category falls through to the single-prefix branch with its None prefix.
BranchOf_nocombined(mode_key) ==
    IF mode_key = "core" THEN "core" ELSE "single"

\* The branch of the loop body a mode key takes.
BranchOf(mode_key) ==
    IF mode_key \in DOMAIN combined_modes THEN "combined"
    ELSE IF mode_key = "core" THEN "core"
    ELSE "single"

\* mode_stats of one iteration of `for mode_key, mode_prefix in gamemodes.items()`
ModeStats(raw, mode_key, mode_prefix) ==
    IF BranchOf(mode_key) = "combined" THEN CombinedStats(raw, mode_key)
    ELSE IF BranchOf(mode_key) = "core" THEN CoreStats(raw, mode_key)
    ELSE SingleStats(raw, mode_key, mode_prefix)

\* A mutant: the loop is left one item early.
LoopDone_early(items) == Len(items) <= 1

\* The for loop has visited every item.
LoopDone(items) == items = <<>>

\* The request arrives and the upstream answer is read.
BedwarsRequest ==
    /\ pc = "idle"
    /\ UNCHANGED <<username_or_uuid, lookup>>
    /\ \E r \in PlayerResponses :
        /\ resp_status' = r[1]
        /\ data' = r[2]
    /\ uuid' = StripHyphens(<<"a", "-", "a">>)
    /\ handler' = "bedwars_stats"
    /\ pc' = "bw_fetched"
    /\ UNCHANGED <<player_data, level_info, bedwars_data, stats, branch, todo,
                   guild_members, formatted_members, current_member_data,
                   response>>

\* The checks on the upstream answer, up to `if not player_data`.
BedwarsCheck ==
    /\ pc = "bw_fetched"
    /\ UNCHANGED <<username_or_uuid, lookup>>
    /\ LET err == UpstreamError(resp_status, data)
           player == Get(data, "player", EmptyDict)
       IN  IF err # NoResponse
           THEN /\ response' = err
                /\ pc' = "done"
                /\ UNCHANGED player_data
           ELSE IF ~Get(data, "success", FALSE)
           THEN /\ response' = HTTPException(404, "Player not found")
                /\ pc' = "done"
                /\ UNCHANGED player_data
           ELSE IF Falsy(player)
           THEN /\ response' = HTTPException(404, "Player data not found")
                /\ pc' = "done"
                /\ player_data' = player
           ELSE /\ player_data' = player
                /\ pc' = "bw_player"
                /\ UNCHANGED response
    /\ UNCHANGED <<handler, uuid, resp_status, data, level_info, bedwars_data, stats,
                   branch, todo, guild_members, formatted_members,
                   current_member_data>>

\* xp = player_data["stats"]["Bedwars"]["Experience"], get_level_info(xp),
\* the bedwars_data check, and the set-up of the loop.
BedwarsLevel ==
    /\ pc = "bw_player"
    /\ UNCHANGED <<username_or_uuid, lookup>>
    /\ IF \/ "stats" \notin DOMAIN player_data
          \/ "Bedwars" \notin DOMAIN player_data["stats"]
          \/ "Experience" \notin DOMAIN player_data["stats"]["Bedwars"]
       THEN /\ response' = Uncaught("KeyError")
            /\ pc' = "done"
            /\ UNCHANGED <<level_info, bedwars_data, stats, branch, todo>>
       ELSE LET xp  == player_data["stats"]["Bedwars"]["Experience"]
                raw == Get(Get(player_data, "stats", EmptyDict), "Bedwars", EmptyDict)
            IN  /\ \E t \in get_level_info(xp) : level_info' = t
                /\ IF Falsy(raw)
                   THEN /\ response' = HTTPException(404, "BedWars data not found")
                        /\ pc' = "done"
                        /\ UNCHANGED <<bedwars_data, stats, branch, todo>>
                   ELSE /\ bedwars_data' = raw
                        /\ stats' = EmptyDict
                        /\ branch' = EmptyDict
                        /\ todo' = gamemodes
                        /\ pc' = "bw_loop"
                        /\ UNCHANGED response
    /\ UNCHANGED <<handler, uuid, resp_status, data, player_data, guild_members,
                   formatted_members, current_member_data>>

\* One iteration of the loop over gamemodes.items().
BedwarsLoop ==
    /\ pc = "bw_loop"
    /\ UNCHANGED <<username_or_uuid, lookup>>
    /\ ~LoopDone(todo)
    /\ LET mode_key    == Head(todo)[1]
           mode_prefix == Head(todo)[2]
       IN  /\ stats' = DictSet(stats, mode_key,
                               ModeStats(bedwars_data, mode_key, mode_prefix))
           /\ branch' = DictSet(branch, mode_key, BranchOf(mode_key))
    /\ todo' = Tail(todo)
    /\ UNCHANGED <<pc, handler, uuid, resp_status, data, player_data, level_info,
                   bedwars_data, guild_members, formatted_members,
                   current_member_data, username_or_uuid, lookup, response>>

\* next_level and the return statement.
BedwarsReturn ==
    /\ pc = "bw_loop"
    /\ UNCHANGED <<username_or_uuid, lookup>>
    /\ LoopDone(todo)
    /\ response' = Return(
         [success |-> TRUE,
          data |-> [uuid |-> uuid,
                    username |-> Get(player_data, "displayname", "not found"),
                    xp |-> player_data["stats"]["Bedwars"]["Experience"],
                    level |-> level_info.level,
                    prestige |-> level_info.prestige,
                    next_level |-> NextLevel(level_info.level),
                    xp_to_next_level |-> level_info.xp_to_next_level,
                    progress_to_next_level_percentage |->
                        level_info.progress_percentage,
                    resources |-> ResourcesOf(bedwars_data),
                    stats |-> stats]])
    /\ pc' = "done"
    /\ UNCHANGED <<handler, uuid, resp_status, data, player_data, level_info,
                   bedwars_data, stats, branch, todo, guild_members,
                   formatted_members, current_member_data>>

-----------------------------------------------------------------------------
(* get_guild *)

\* await get_username(x): a name the model keeps symbolic.
get_username(x) == <<"username_of", x>>

\* format_timestamp(t): kept symbolic.
format_timestamp(t) == <<"format_timestamp", t>>

\* What a raw guild member may hold besides its uuid.
MemberProfiles ==
    {EmptyDict,
     [joined |-> 5, questParticipation |-> 3, rank |-> "Officer",
      expHistory |-> [weekly |-> 7, daily |-> 2]],
     [joined |-> 9, questParticipation |-> 1, rank |-> "Member", role |-> "lead",
      expHistory |-> [weekly |-> 4]]}

MemberUuids == {<<"a", "a">>, <<"b", "b">>}

RawMembers ==
    MemberProfiles \cup
    {DictSet(m, "uuid", u) : m \in MemberProfiles, u \in MemberUuids}

MemberLists == UNION {[1..n -> RawMembers] : n \in 0..MaxMembers}

Guilds ==
    {[name |-> "Guild", exp |-> 12]}
    \cup {[name |-> "Guild", tag |-> "G", created |-> 4, members |-> ms] :
            ms \in MemberLists}

PlainGuildBodies ==
    {InvalidKeyBody, MalformedBody,
     [success |-> FALSE, cause |-> "Key throttle"],
     [success |-> TRUE],
     [success |-> TRUE, guild |-> PyNone],
     [success |-> TRUE, guild |-> [name |-> "Guild", exp |-> 12]]}

GuildResponses ==
    (Statuses \X PlainGuildBodies)
    \cup {<<200, [success |-> TRUE, guild |-> g]>> : g \in Guilds}

\* member_info of one member
MemberInfo(member, member_username) ==
    [uuid |-> member["uuid"],
     username |-> member_username,
     joined |-> Get(member, "joined", 0),
     joined_pretty |-> format_timestamp(Get(member, "joined", 0)),
     quests |-> Get(member, "questParticipation", 0),
     rank |-> Get(member, "rank", "not found"),
     weekly_exp |-> Get(Get(member, "expHistory", EmptyDict), "weekly", 0),
     daily_exp |-> Get(Get(member, "expHistory", EmptyDict), "daily", 0),
     role |-> Get(member, "role", "not found")]

\* guild_info after guild_info.update({...})
GuildInfo(guild, id, current, members) ==
    [uuid |-> id,
     username |-> get_username(id),
     in_guild |-> TRUE,
     name |-> Get(guild, "name", "not found"),
     tag |-> Get(guild, "tag", "not found"),
     tag_color |-> Get(guild, "tagColor", "not found"),
     exp |-> Get(guild, "exp", 0),
     created |-> Get(guild, "created", 0),
     created_pretty |-> format_timestamp(Get(guild, "created", 0)),
     quests |-> Get(current, "quests", 0),
     joined |-> Get(current, "joined", 0),
     joined_pretty |-> format_timestamp(Get(current, "joined", 0)),
     weekly_exp |-> Get(current, "weekly_exp", 0),
     daily_exp |-> Get(current, "daily_exp", 0),
     role |-> Get(current, "role", "not found"),
     members |-> members]

\* The request arrives and the upstream answer is read.
GuildRequest ==
    /\ pc = "idle"
    /\ UNCHANGED <<username_or_uuid, lookup>>
    /\ \E u \in UuidParams : uuid' = StripHyphens(u)
    /\ \E r \in GuildResponses :
        /\ resp_status' = r[1]
        /\ data' = r[2]
    /\ handler' = "get_guild"
    /\ pc' = "g_fetched"
    /\ UNCHANGED <<player_data, level_info, bedwars_data, stats, branch, todo,
                   guild_members, formatted_members, current_member_data,
                   response>>

\* The status checks, `if not guild`, and the set-up of the member loop.
GuildCheck ==
    /\ pc = "g_fetched"
    /\ UNCHANGED <<username_or_uuid, lookup>>
    /\ LET err   == UpstreamError(resp_status, data)
           guild == Get(data, "guild", PyNone)
       IN  IF err # NoResponse
           THEN /\ response' = err
                /\ pc' = "done"
                /\ UNCHANGED <<guild_members, formatted_members,
                               current_member_data>>
           ELSE IF Falsy(guild)
           THEN /\ response' = Return([success |-> TRUE,
                                       data |-> [in_guild |-> FALSE]])
                /\ pc' = "done"
                /\ UNCHANGED <<guild_members, formatted_members,
                               current_member_data>>
           ELSE /\ guild_members' = Get(guild, "members", <<>>)
                /\ formatted_members' = <<>>
                /\ current_member_data' = EmptyDict
                /\ pc' = "g_loop"
                /\ UNCHANGED response
    /\ UNCHANGED <<handler, uuid, resp_status, data, player_data, level_info,
                   bedwars_data, stats, branch, todo>>

\* One iteration of `for member in guild_members`; the username lookup
\* either answers or raises, and then the name is "Unknown".
GuildLoop ==
    /\ pc = "g_loop"
    /\ UNCHANGED <<username_or_uuid, lookup>>
    /\ guild_members # <<>>
    /\ LET member      == Head(guild_members)
           member_uuid == Get(member, "uuid", PyNone)
       IN  IF Falsy(member_uuid)
           THEN UNCHANGED <<formatted_members, current_member_data>>
           ELSE /\ \E member_username \in {get_username(member_uuid), <<"Unknown">>} :
                     formatted_members' =
                         Append(formatted_members,
                                MemberInfo(member, member_username))
                /\ current_member_data' =
                     IF member_uuid = uuid THEN member ELSE current_member_data
    /\ guild_members' = Tail(guild_members)
    /\ UNCHANGED <<pc, handler, uuid, resp_status, data, player_data, level_info,
                   bedwars_data, stats, branch, todo, response>>

\* guild_info.update({...}) and the return statement.
GuildReturn ==
    /\ pc = "g_loop"
    /\ UNCHANGED <<username_or_uuid, lookup>>
    /\ guild_members = <<>>
    /\ response' = Return([success |-> TRUE,
                           data |-> GuildInfo(data["guild"], uuid,
                                              current_member_data,
                                              formatted_members)])
    /\ pc' = "done"
    /\ UNCHANGED <<handler, uuid, resp_status, data, player_data, level_info,
                   bedwars_data, stats, branch, todo, guild_members,
                   formatted_members, current_member_data>>

-----------------------------------------------------------------------------
(* get_profile *)

\* await get_rank(uuid, data): a rank the model keeps symbolic.
get_rank(id, body) == <<"rank_of", id>>

\* round((math.sqrt((2 * exp) + 30625) / 50) - 2.5, 2), in hundredths: the
\* integer nearest to sqrt(4 * (2 * exp + 30625)) - 250.
NetworkLevel(exp) ==
    LET n == 2 * exp + 30625
        k == CHOOSE x \in 0..(350 + exp) :
                 (2 * x - 1) * (2 * x - 1) <= 16 * n /\ 16 * n < (2 * x + 1) * (2 * x + 1)
    IN  k - 250

\* The "player" objects get_profile is answered with.
ProfilePlayers ==
    {PyNone, EmptyDict,
     [displayname |-> "Steve"],
     [displayname |-> "Steve", firstLogin |-> 1, lastLogin |-> 5, lastLogout |-> 3,
      networkExp |-> 100, karma |-> 7, mostRecentGameType |-> "BEDWARS"],
     [displayname |-> "Alex", firstLogin |-> 1, lastLogin |-> 2, lastLogout |-> 4,
      networkExp |-> 0, achievementPoints |-> 9, rewardStreak |-> 1]}

\* <<resp.status, await resp.json()>>
ProfileResponses ==
    (Statuses \X PlainBodies)
    \cup (Statuses \X {[success |-> TRUE, player |-> p] : p \in ProfilePlayers})
    \cup (Statuses \X {[success |-> FALSE, player |-> p] : p \in ProfilePlayers})

\* The data of the success body of get_profile.
ProfileData(id, player, username, rank) ==
    [uuid |-> id,
     username |-> username,
     rank |-> rank,
     first_login |-> Get(player, "firstLogin", 0),
     first_login_pretty |-> format_timestamp(Get(player, "firstLogin", 0)),
     last_login |-> Get(player, "lastLogin", 0),
     last_login_pretty |-> format_timestamp(Get(player, "lastLogin", 0)),
     last_logout |-> Get(player, "lastLogout", 0),
     last_logout_pretty |-> format_timestamp(Get(player, "lastLogout", 0)),
     exp |-> Get(player, "networkExp", 0),
     network_level |-> NetworkLevel(Get(player, "networkExp", 0)),
     karma |-> Get(player, "karma", 0),
     achievement_points |-> Get(player, "achievementPoints", 0),
     total_rewards |-> Get(player, "totalRewards", 0),
     total_daily_rewards |-> Get(player, "totalDailyRewards", 0),
     reward_streak |-> Get(player, "rewardStreak", 0),
     reward_score |-> Get(player, "rewardScore", 0),
     reward_high_score |-> Get(player, "rewardHighScore", 0),
     most_recent_game |-> Get(player, "mostRecentGameType", "unknown"),
     online |-> Get(player, "lastLogin", 0) > Get(player, "lastLogout", 0),
     images |-> ("full_skin_image" :> <<"renders/body", id>>
                 @@ "3d_head_image" :> <<"renders/head", id>>
                 @@ "2d_head_image" :> <<"avatars", id>>
                 @@ "network_level_image" :> <<"exp", username>>)]

\* The request arrives and the upstream answer is read.
ProfileRequest ==
    /\ pc = "idle"
    /\ \E u \in UuidParams : uuid' = StripHyphens(u)
    /\ \E r \in ProfileResponses :
        /\ resp_status' = r[1]
        /\ data' = r[2]
    /\ handler' = "get_profile"
    /\ pc' = "pf_fetched"
    /\ UNCHANGED <<player_data, level_info, bedwars_data, stats, branch, todo,
                   guild_members, formatted_members, current_member_data,
                   username_or_uuid, lookup, response>>

\* The checks on the upstream answer, up to `if not player_data`.
ProfileCheck ==
    /\ pc = "pf_fetched"
    /\ LET err    == UpstreamError(resp_status, data)
           player == Get(data, "player", EmptyDict)
       IN  IF err # NoResponse
           THEN /\ response' = err
                /\ pc' = "done"
                /\ UNCHANGED player_data
           ELSE IF ~Get(data, "success", FALSE)
           THEN /\ response' = HTTPException(404, "Player not found")
                /\ pc' = "done"
                /\ UNCHANGED player_data
           ELSE IF Falsy(player)
           THEN /\ response' = HTTPException(404, "Player data not found")
                /\ pc' = "done"
                /\ player_data' = player
           ELSE /\ player_data' = player
                /\ pc' = "pf_player"
                /\ UNCHANGED response
    /\ UNCHANGED <<handler, uuid, resp_status, data, level_info, bedwars_data,
                   stats, branch, todo, guild_members, formatted_members,
                   current_member_data, username_or_uuid, lookup>>

\* username = await get_username(uuid); rank = await get_rank(uuid, data)
ProfileLookup ==
    /\ pc = "pf_player"
    /\ lookup' = [username |-> get_username(uuid), rank |-> get_rank(uuid, data)]
    /\ pc' = "pf_looked_up"
    /\ UNCHANGED <<handler, uuid, resp_status, data, player_data, level_info,
                   bedwars_data, stats, branch, todo, guild_members,
                   formatted_members, current_member_data, username_or_uuid,
                   response>>

\* The return statement.
ProfileReturn ==
    /\ pc = "pf_looked_up"
    /\ response' = Return([success |-> TRUE,
                           data |-> ProfileData(uuid, player_data,
                                                lookup.username, lookup.rank)])
    /\ pc' = "done"
    /\ UNCHANGED <<handler, uuid, resp_status, data, player_data, level_info,
                   bedwars_data, stats, branch, todo, guild_members,
                   formatted_members, current_member_data, username_or_uuid,
                   lookup>>

-----------------------------------------------------------------------------
(* get_player_uuid *)

\* The number count is compared with in `count > 16`.
NameLimit == 16

RECURSIVE CountChars(_)
\* count = 1; for i in username_or_uuid: count += 1
CountChars(s) == IF s = <<>> THEN 1 ELSE CountChars(Tail(s)) + 1

\* "-" in username_or_uuid
HasHyphen(s) == \E n \in 1..Len(s) : s[n] = "-"

\* The condition of the first branch, which resolves with get_username.
TreatedAsUuid(s) == HasHyphen(s) \/ CountChars(s) > NameLimit

\* await get_uuid(x): a uuid the model keeps symbolic.
get_uuid(x) == <<"uuid_of", x>>

\* The answer "not found" of a lookup.
NotFound == <<"not found">>

\* The path parameters: up to MaxArgLen characters, at most one of them "-".
Args ==
    {[i \in 1..n |-> IF i = h THEN "-" ELSE "a"] : n \in 0..MaxArgLen, h \in 0..MaxArgLen}

\* The request arrives.
UuidRequest ==
    /\ pc = "idle"
    /\ \E a \in Args : username_or_uuid' = a
    /\ handler' = "get_player_uuid"
    /\ pc' = "id_received"
    /\ UNCHANGED <<uuid, resp_status, data, player_data, level_info,
                   bedwars_data, stats, branch, todo, guild_members,
                   formatted_members, current_member_data, lookup, response>>

\* The branch is chosen and its lookup awaited; the lookup answers a value or
\* "not found".
UuidLookup ==
    /\ pc = "id_received"
    /\ IF TreatedAsUuid(username_or_uuid)
       THEN \E name \in {get_username(username_or_uuid), NotFound} :
                lookup' = [call |-> "get_username", result |-> name]
       ELSE \E id \in {get_uuid(username_or_uuid), NotFound} :
                lookup' = [call |-> "get_uuid", result |-> id]
    /\ pc' = "id_looked_up"
    /\ UNCHANGED <<handler, uuid, resp_status, data, player_data, level_info,
                   bedwars_data, stats, branch, todo, guild_members,
                   formatted_members, current_member_data, username_or_uuid,
                   response>>

\* The 404 or the return statement of the branch taken.
UuidReturn ==
    /\ pc = "id_looked_up"
    /\ response' =
         IF lookup.result = NotFound
         THEN HTTPException(404, "Player not found")
         ELSE IF lookup.call = "get_username"
         THEN Return([success |-> TRUE,
                      data |-> [uuid |-> username_or_uuid,
                                username |-> lookup.result]])
         ELSE Return([success |-> TRUE,
                      data |-> [uuid |-> lookup.result,
                                username |-> username_or_uuid]])
    /\ pc' = "done"
    /\ UNCHANGED <<handler, uuid, resp_status, data, player_data, level_info,
                   bedwars_data, stats, branch, todo, guild_members,
                   formatted_members, current_member_data, username_or_uuid,
                   lookup>>

-----------------------------------------------------------------------------

Init ==
    /\ pc = "idle"
    /\ handler = "none"
    /\ uuid = <<>>
    /\ resp_status = 0
    /\ data = EmptyDict
    /\ player_data = EmptyDict
    /\ level_info = EmptyDict
    /\ bedwars_data = EmptyDict
    /\ stats = EmptyDict
    /\ branch = EmptyDict
    /\ todo = <<>>
    /\ guild_members = <<>>
    /\ formatted_members = <<>>
    /\ current_member_data = EmptyDict
    /\ username_or_uuid = <<>>
    /\ lookup = EmptyDict
    /\ response = NoResponse

Next ==
    \/ BedwarsRequest
    \/ BedwarsCheck
    \/ BedwarsLevel
    \/ BedwarsLoop
    \/ BedwarsReturn
    \/ GuildRequest
    \/ GuildCheck
    \/ GuildLoop
    \/ GuildReturn
    \/ ProfileRequest
    \/ ProfileCheck
    \/ ProfileLookup
    \/ ProfileReturn
    \/ UuidRequest
    \/ UuidLookup
    \/ UuidReturn

Spec == Init /\ [][Next]_vars

-----------------------------------------------------------------------------
(* Properties of bedwars_stats. *)

\* bedwars_stats has returned its success body.
BedwarsOk ==
    pc = "done" /\ handler = "bedwars_stats" /\ response.kind = "ok"

\* The stats mapping of the success body.
OutStats == response.body.data.stats

\* Field <mode_key>_<metric> of the record of mode_key.
Out(mode_key, metric) == OutStats[mode_key][mode_key \o "_" \o metric]

\* bedwars_data[key], 0 when the key is absent.
Raw(key) == IF key \in DOMAIN bedwars_data THEN bedwars_data[key] ELSE 0

Abs(x) == IF x < 0 THEN -x ELSE x

\* v hundredths is numerator / denominator rounded to two decimals when the
\* denominator is positive, and the numerator itself when it is zero.
IsRatio(v, numerator, denominator) ==
    IF denominator > 0
    THEN 2 * Abs(v * denominator - 100 * numerator) <= denominator
    ELSE v = 100 * numerator

\* C1: in every success body and for every mode key of it, each of wlr, kdr,
\* fkdr and bblr is numerator / denominator rounded to two decimals when the
\* denominator is positive and the numerator itself when it is zero; wlr is
\* wins when there are wins and no losses, and 0 when there are neither.
C1_RatioPolicy ==
    BedwarsOk =>
        \A k \in DOMAIN OutStats :
            /\ IsRatio(Out(k, "wlr"), Out(k, "wins"), Out(k, "losses"))
            /\ IsRatio(Out(k, "kdr"), Out(k, "kills"), Out(k, "deaths"))
            /\ IsRatio(Out(k, "fkdr"), Out(k, "final_kills"), Out(k, "final_deaths"))
            /\ IsRatio(Out(k, "bblr"), Out(k, "beds_broken"), Out(k, "beds_lost"))
            /\ (Out(k, "losses") = 0 /\ Out(k, "wins") > 0
                   => Out(k, "wlr") = 100 * Out(k, "wins"))
            /\ (Out(k, "losses") = 0 /\ Out(k, "wins") = 0 => Out(k, "wlr") = 0)

\* C1 witness: one body with a simple mode that has wins and no losses, the
\* core mode with a ratio that needs rounding (5 / 3), a combined mode and
\* the overall mode with neither wins nor losses.
C1_Witness ==
    /\ BedwarsOk
    /\ Out("eight_one", "wins") = 2 /\ Out("eight_one", "losses") = 0
    /\ Out("eight_one", "wlr") = 200
    /\ Out("core", "wins") = 5 /\ Out("core", "losses") = 3
    /\ Out("core", "wlr") = 167
    /\ Out("ultimate", "wlr") = 0
    /\ Out("overall", "wlr") = 0

\* C2: in every success body, each counter and resource total of ultimate,
\* lucky, rush and swap is the sum of the raw values under eight_two_<cat>_
\* and four_four_<cat>_, and so the sum of the same field of the two simple
\* modes eight_two_<cat> and four_four_<cat> of the same body.
C2_CombinedSums ==
    BedwarsOk =>
        \A cat \in {"ultimate", "lucky", "rush", "swap"} :
            \A m \in {"wins", "losses", "final_kills", "final_deaths", "kills",
                      "deaths", "beds_broken", "beds_lost",
                      "emeralds", "diamonds", "gold", "iron"} :
                /\ Out(cat, m) =
                       Raw(("eight_two_" \o cat \o "_") \o RawSuffix(m))
                       + Raw(("four_four_" \o cat \o "_") \o RawSuffix(m))
                /\ Out(cat, m) =
                       Out("eight_two_" \o cat, m) + Out("four_four_" \o cat, m)

\* C2 witness: a body where both constituents of a category count.
C2_Witness ==
    /\ BedwarsOk
    /\ Raw("eight_two_rush_gold_resources_collected_bedwars") = 1
    /\ Raw("four_four_rush_gold_resources_collected_bedwars") = 2
    /\ Out("rush", "gold") = 3
    /\ Out("rush", "iron") > 0

\* C3: in every success body each counter and resource total of core is the
\* sum of the raw values under eight_one_, eight_two_, four_three_ and
\* four_four_ only; the raw map whose only counter is
\* eight_one_wins_bedwars = 7 gives core_wins = 7, eight_one_wins = 7 and
\* wins = 0 for every other mode key.
C3_CoreSums ==
    BedwarsOk =>
        /\ \A m \in {"wins", "losses", "final_kills", "final_deaths", "kills",
                     "deaths", "beds_broken", "beds_lost",
                     "emeralds", "diamonds", "gold", "iron"} :
               Out("core", m) =
                   Raw("eight_one_" \o RawSuffix(m)) + Raw("eight_two_" \o RawSuffix(m))
                   + Raw("four_three_" \o RawSuffix(m)) + Raw("four_four_" \o RawSuffix(m))
        /\ (/\ DOMAIN bedwars_data \ {"Experience"} = {"eight_one_wins_bedwars"}
            /\ bedwars_data["eight_one_wins_bedwars"] = 7)
           => /\ Out("core", "wins") = 7
              /\ Out("eight_one", "wins") = 7
              /\ \A k \in DOMAIN OutStats \ {"core", "eight_one"} :
                     Out(k, "wins") = 0

\* C3 witness: the four base prefixes and the 4v4 prefix all count wins, and
\* core reports the sum of the four.
C3_Witness ==
    /\ BedwarsOk
    /\ Raw("eight_one_wins_bedwars") = 1 /\ Raw("eight_two_wins_bedwars") = 2
    /\ Raw("four_three_wins_bedwars") = 1 /\ Raw("four_four_wins_bedwars") = 1
    /\ Raw("two_four_wins_bedwars") = 1
    /\ Out("core", "wins") = 5

\* The scenario of C3 has been answered.
C3_Scenario ==
    /\ BedwarsOk
    /\ DOMAIN bedwars_data = {"Experience", "eight_one_wins_bedwars"}
    /\ Out("core", "wins") = 7

\* The unprefixed raw keys, which the overall mode reads.
OverallKeys ==
    {RawSuffix(m) : m \in Counters \cup Resources}

\* C5: in every success body each counter and resource total of a mode key
\* with one prefix is the raw value under prefix + suffix, 0 when absent; for
\* overall the prefix is empty, so overall_wins is raw["wins_bedwars"], and a
\* raw map with prefixed counters only gives overall counters of 0.
C5_SinglePrefix ==
    BedwarsOk =>
        /\ \A n \in 1..Len(gamemodes_literal) :
               LET k == gamemodes_literal[n][1]
                   p == gamemodes_literal[n][2]
               IN  p # None =>
                       \A m \in Counters \cup Resources :
                           Out(k, m) = Raw(p[1] \o RawSuffix(m))
        /\ Out("overall", "wins") = Raw("wins_bedwars")
        /\ (DOMAIN bedwars_data \cap OverallKeys = {})
               => \A m \in Counters \cup Resources : Out("overall", m) = 0

\* C5 witness: only prefixed counters are present, a simple mode reports its
\* own and overall reports none.
C5_Witness ==
    /\ BedwarsOk
    /\ DOMAIN bedwars_data \cap OverallKeys = {}
    /\ Raw("castle_kills_bedwars") = 2 /\ Raw("castle_deaths_bedwars") = 1
    /\ Out("castle", "kills") = 2 /\ Out("castle", "deaths") = 1
    /\ Out("overall", "kills") = 0

\* The overall mode reports the unprefixed counter and no other mode does.
C5_OverallRead ==
    /\ BedwarsOk
    /\ Raw("wins_bedwars") = 2
    /\ Out("overall", "wins") = 2
    /\ Out("core", "wins") = 0

\* The player object passed the checks of the upstream answer.
PlayerAccepted ==
    handler = "bedwars_stats" /\ player_data # EmptyDict /\ player_data # PyNone

\* The upstream player carries a Bedwars object, the raw counter map.
HasRawMap ==
    /\ PlayerAccepted
    /\ "stats" \in DOMAIN player_data
    /\ "Bedwars" \in DOMAIN player_data["stats"]

\* The experience value is missing: no Experience entry, or no Bedwars object.
XpMissing ==
    /\ PlayerAccepted
    /\ \/ ~HasRawMap
       \/ "Experience" \notin DOMAIN player_data["stats"]["Bedwars"]

\* Every raw counter, resource total and ratio of every mode key is 0.
AllZero ==
    \A k \in DOMAIN OutStats : \A f \in DOMAIN OutStats[k] : OutStats[k][f] = 0

\* C4: whenever the upstream player carries a raw counter map, the empty one
\* included, the request ends with the aggregation completed, every absent
\* counter read as 0; with no counter in the map every counter, resource
\* total and ratio of every mode key is 0.
C4_NeverFailsOnMissing ==
    (pc = "done" /\ HasRawMap) =>
        /\ response.kind = "ok"
        /\ \A n \in 1..Len(gamemodes_literal) :
               LET k == gamemodes_literal[n][1]
                   p == gamemodes_literal[n][2]
               IN  p # None =>
                       \A m \in Counters \cup Resources :
                           p[1] \o RawSuffix(m) \notin DOMAIN bedwars_data
                               => Out(k, m) = 0
        /\ (DOMAIN player_data["stats"]["Bedwars"] \subseteq {"Experience"}) => AllZero

\* The part of C4 the handler keeps: a raw map that holds only
\* Experience = 0 is answered with zeros everywhere.
C4_ZerosWithExperience ==
    (/\ pc = "done" /\ HasRawMap
     /\ player_data["stats"]["Bedwars"] = [Experience |-> 0])
        => response.kind = "ok" /\ AllZero

\* C6: when the experience value is missing from the upstream Bedwars object,
\* or the Bedwars object is missing, the handler goes on with xp = 0: the
\* leveling calculator is called with 0 and the request does not end in the
\* exception of the missing field.
C6_MissingXpIsZero ==
    (pc = "done" /\ XpMissing) =>
        /\ response.kind # "exception"
        /\ level_info \in get_level_info(0)

\* The level-progress fields of a success body.
LevelFields ==
    {"xp", "level", "prestige", "next_level", "xp_to_next_level",
     "progress_to_next_level_percentage"}

\* The sixteen metrics of a record.
FieldNames ==
    {"wins", "losses", "final_kills", "final_deaths", "kills", "deaths",
     "beds_broken", "beds_lost", "emeralds", "diamonds", "gold", "iron",
     "wlr", "kdr", "fkdr", "bblr"}

\* The mode keys of the schema.
ModeKeys == {gamemodes[n][1] : n \in 1..Len(gamemodes)}

\* C7: a request to bedwars_stats has no response until it ends, and then it
\* has either an error, which carries no body, stats or level field, or a
\* success body with all level-progress fields and a stats mapping that
\* holds a complete record for every mode key of the schema.
C7_AllOrNothing ==
    handler = "bedwars_stats" =>
        /\ pc # "done" => response = NoResponse
        /\ pc = "done" =>
            \/ /\ response.kind \in {"error", "exception"}
               /\ DOMAIN response \cap ({"body", "data", "stats"} \cup LevelFields) = {}
            \/ /\ response.kind = "ok"
               /\ LevelFields \subseteq DOMAIN response.body.data
               /\ "stats" \in DOMAIN response.body.data
               /\ DOMAIN OutStats = ModeKeys
               /\ \A k \in ModeKeys :
                      DOMAIN OutStats[k] = {k \o "_" \o f : f \in FieldNames}

\* C7 witness: a success body after the loop has visited every mode key.
C7_Witness ==
    /\ BedwarsOk
    /\ todo = <<>>
    /\ "swap" \in DOMAIN OutStats
    /\ Out("overall", "wins") = 1

\* An error outcome of bedwars_stats after the player was accepted.
C7_ErrorSeen ==
    /\ pc = "done" /\ PlayerAccepted
    /\ response.kind = "exception"

\* C8: the next_level field of a success body is one above the integer part
\* of the level, for whole and for fractional levels.
C8_NextLevel ==
    BedwarsOk =>
        response.body.data.next_level = (response.body.data.level.h \div 100) + 1

\* C8 witness: a two-digit level with a fractional part.
C8_Witness ==
    /\ BedwarsOk
    /\ response.body.data.level = [isint |-> FALSE, h |-> 1025]
    /\ response.body.data.next_level = 11

\* A whole level held as an int.
C8_WholeLevel ==
    /\ BedwarsOk
    /\ response.body.data.level = [isint |-> TRUE, h |-> 300]
    /\ response.body.data.next_level = 4

\* The schema kind of a mode key: by its place in the schema.
KindOf(k) ==
    IF k \in {"ultimate", "lucky", "rush", "swap"} THEN "combined"
    ELSE IF k = "core" THEN "core"
    ELSE "single"

\* C9: the mode keys of the schema are pairwise distinct; each mode key
\* visited was handled by the one branch of its kind, and only single-prefix
\* keys carry a prefix; every success body has exactly one record per mode
\* key, each with exactly the 16 fields <mode_key>_<metric>.
C9_OneRecordPerModeKey ==
    /\ \A i, j \in 1..Len(gamemodes) :
           gamemodes[i][1] = gamemodes[j][1] => i = j
    /\ \A n \in 1..Len(gamemodes) :
           (gamemodes[n][2] # None) <=> (KindOf(gamemodes[n][1]) = "single")
    /\ \A k \in DOMAIN branch : branch[k] = KindOf(k)
    /\ BedwarsOk =>
           /\ DOMAIN branch = ModeKeys
           /\ DOMAIN OutStats = ModeKeys
           /\ Cardinality(DOMAIN OutStats) = Len(gamemodes)
           /\ \A k \in ModeKeys :
                  /\ DOMAIN OutStats[k] = {k \o "_" \o f : f \in FieldNames}
                  /\ Cardinality(DOMAIN OutStats[k]) = Cardinality(FieldNames)

\* C9 witness: a success body for a raw map with counters, with a record of
\* each kind in it.
C9_Witness ==
    /\ BedwarsOk
    /\ branch["lucky"] = "combined" /\ branch["core"] = "core"
    /\ branch["overall"] = "single" /\ branch["four_four_lucky"] = "single"
    /\ Out("lucky", "kills") = 2
    /\ Out("four_four_lucky", "kills") = 1

-----------------------------------------------------------------------------
(* Properties of get_guild. *)

\* get_guild has returned the body of a player who is in a guild.
GuildOk ==
    /\ pc = "done" /\ handler = "get_guild" /\ response.kind = "ok"
    /\ response.body.data.in_guild

\* The entries of the returned members list that carry the requested uuid.
Matches ==
    {n \in 1..Len(response.body.data.members) :
        response.body.data.members[n].uuid = uuid}

\* The raw members that have a uuid, in their order.
WithUuid(ms) == SelectSeq(ms, LAMBDA m : ~Falsy(Get(m, "uuid", PyNone)))

\* C10: in a guild body, when an entry of the members list carries the
\* requested uuid, the top-level joined, role, quests, weekly_exp and
\* daily_exp are those of such an entry; when none does they are 0 and
\* 'not found'; the members list has one entry per raw member with a uuid,
\* in the original order.
C10_CurrentMember ==
    GuildOk =>
        LET d  == response.body.data
            ms == Get(data["guild"], "members", <<>>)
        IN  /\ IF Matches # {}
               THEN \E n \in Matches :
                        /\ d.joined = d.members[n].joined
                        /\ d.role = d.members[n].role
                        /\ d.quests = d.members[n].quests
                        /\ d.weekly_exp = d.members[n].weekly_exp
                        /\ d.daily_exp = d.members[n].daily_exp
               ELSE /\ d.joined = 0 /\ d.quests = 0
                    /\ d.weekly_exp = 0 /\ d.daily_exp = 0
                    /\ d.role = "not found"
            /\ Len(d.members) = Len(WithUuid(ms))
            /\ \A n \in 1..Len(d.members) :
                   d.members[n].uuid = WithUuid(ms)[n]["uuid"]

\* The parts of C10 the handler keeps: the members list, the defaults when
\* no entry matches, and joined and role of the matching entry.
C10_ListAndDefaults ==
    GuildOk =>
        LET d  == response.body.data
            ms == Get(data["guild"], "members", <<>>)
        IN  /\ IF Matches # {}
               THEN \E n \in Matches :
                        /\ d.joined = d.members[n].joined
                        /\ d.role = d.members[n].role
               ELSE /\ d.joined = 0 /\ d.quests = 0
                    /\ d.weekly_exp = 0 /\ d.daily_exp = 0
                    /\ d.role = "not found"
            /\ Len(d.members) = Len(WithUuid(ms))
            /\ \A n \in 1..Len(d.members) :
                   d.members[n].uuid = WithUuid(ms)[n]["uuid"]

-----------------------------------------------------------------------------
(* Properties of the checks on the upstream answer. *)

\* The status the upstream answer must be refused with, by the precedence of
\* C11; 0 when no condition of the list holds.
RefusedWith ==
    IF resp_status = 401 \/ data = [success |-> FALSE, cause |-> "Invalid API key"]
    THEN 401
    ELSE IF resp_status = 422 \/ data = [success |-> FALSE, cause |-> "Malformed UUID"]
    THEN 422
    ELSE IF resp_status # 200 THEN 500
    ELSE IF "success" \notin DOMAIN data \/ ~data["success"] THEN 404
    ELSE IF "player" \notin DOMAIN data THEN 404
    ELSE IF data["player"] = PyNone \/ DOMAIN data["player"] = {} THEN 404
    ELSE 0

\* C11: in get_profile and bedwars_stats, status 401 or the 'Invalid API key'
\* body gives 401; otherwise status 422 or the 'Malformed UUID' body gives
\* 422; otherwise a status other than 200 gives 500; otherwise success absent
\* or false gives 404; otherwise a player absent or empty gives 404; a
\* success body is returned only when none of these holds, and the handler
\* is past the checks (lookups made, level computed, aggregation started)
\* only when none of these holds.
C11_ErrorPrecedence ==
    handler \in {"get_profile", "bedwars_stats"} =>
        /\ (pc = "done" /\ RefusedWith # 0)
               => /\ response.kind = "error"
                  /\ response.status_code = RefusedWith
        /\ (pc = "done" /\ response.kind = "ok") => RefusedWith = 0
        /\ pc \in {"pf_player", "pf_looked_up", "bw_player", "bw_loop"}
               => RefusedWith = 0
        /\ (lookup # EmptyDict \/ level_info # EmptyDict \/ stats # EmptyDict)
               => RefusedWith = 0

\* C11 witness: get_profile is answered with status 422 and the
\* 'Invalid API key' body, and refuses with 401.
C11_Witness ==
    /\ pc = "done" /\ handler = "get_profile"
    /\ resp_status = 422
    /\ data = [success |-> FALSE, cause |-> "Invalid API key"]
    /\ response.kind = "error" /\ response.status_code = 401

\* get_profile made its lookups and returned its body.
C11_ProfileOk ==
    /\ pc = "done" /\ handler = "get_profile"
    /\ response.kind = "ok"
    /\ lookup # EmptyDict
    /\ response.body.data.network_level = 101 /\ response.body.data.online

\* bedwars_stats refuses status 200 with success false and a player present.
C11_SuccessFalse ==
    /\ pc = "done" /\ handler \in {"get_profile", "bedwars_stats"}
    /\ resp_status = 200 /\ "player" \in DOMAIN data
    /\ response.kind = "error" /\ response.status_code = 404
    /\ response.detail = "Player not found"

-----------------------------------------------------------------------------
(* Properties of get_player_uuid. *)

\* The outcome of the lookup made: "not found" gives the 404, anything else
\* a success body that pairs the path parameter with the resolved value.
LookupOutcome ==
    IF lookup.result = <<"not found">>
    THEN response.kind = "error" /\ response.status_code = 404
    ELSE /\ response.kind = "ok"
         /\ IF lookup.call = "get_uuid"
            THEN /\ response.body.data.username = username_or_uuid
                 /\ response.body.data.uuid = lookup.result
            ELSE /\ response.body.data.uuid = username_or_uuid
                 /\ response.body.data.username = lookup.result

\* C12: get_player_uuid resolves its argument with get_uuid, as a username,
\* exactly when the argument has no '-' and at most 16 characters, and with
\* get_username otherwise; a 'not found' answer gives 404 and any other
\* answer a success body pairing the input with the resolved value.
C12_UsernameUpToSixteen ==
    handler = "get_player_uuid" =>
        /\ lookup # EmptyDict =>
               ((lookup.call = "get_uuid")
                    <=> (/\ \A n \in 1..Len(username_or_uuid) :
                                username_or_uuid[n] # "-"
                         /\ Len(username_or_uuid) <= 16))
        /\ pc = "done" => LookupOutcome

\* What the handler does: the username branch is taken for at most 15
\* characters without '-'; the outcomes are those of C12.
C12_UsernameUpToFifteen ==
    handler = "get_player_uuid" =>
        /\ lookup # EmptyDict =>
               ((lookup.call = "get_uuid")
                    <=> (/\ \A n \in 1..Len(username_or_uuid) :
                                username_or_uuid[n] # "-"
                         /\ Len(username_or_uuid) <= 15))
        /\ pc = "done" => LookupOutcome

\* A name of 16 characters without '-' was resolved with get_username.
C12_SixteenAsUuid ==
    /\ pc = "done" /\ handler = "get_player_uuid"
    /\ Len(username_or_uuid) = 16 /\ ~HasHyphen(username_or_uuid)
    /\ lookup.call = "get_username"
    /\ response.kind = "ok"

=============================================================================
